---- MODULE Spec2Model ----
(***************************************************************************)
(* Model of the route-booking component MapView                            *)
(* (frontend_Web/src/components/MapView.tsx): the React state of the       *)
(* component, the getRoutes calls in flight with the position each has     *)
(* reached (geocoding the start, geocoding the destination, waiting for    *)
(* the three routing responses), and the user's events.                    *)
(*                                                                         *)
(* Conventions.  An optional value (number | null, or a promise that has   *)
(* not resolved yet) is a sequence of length 0 or 1.  Route indices are    *)
(* 0-based as in the code; At(s, i) reads s[i].  Minutes and cost units    *)
(* are kept in tenths (Scale), so that the factor 0.1 is the integer 1.    *)
(***************************************************************************)
EXTENDS Integers, Sequences, FiniteSets, TLC

VARIABLES
    userAddress,    \* useState<string>('')                    line 55
    routes,         \* useState<Route[]>([])                   line 57
    selectedRoute,  \* useState<number | null>(null)           line 58
    estimatedTime,  \* useState<number | null>(null), tenths   line 59
    estimatedCost,  \* useState<number | null>(null), tenths   line 60
    fullscreen,     \* useState<boolean>(false)                line 61
    fetches,        \* the getRoutes calls in flight, oldest first
    started,        \* history: how many times getRoutes has been called
    lastOp          \* history: the last event handled and what it found

vars == <<userAddress, routes, selectedRoute, estimatedTime, estimatedCost,
          fullscreen, fetches, started, lastOp>>

component == <<routes, selectedRoute, estimatedTime, estimatedCost, fullscreen>>

----------------------------------------------------------------------------
(* Bounds of the model *)

\* how many times Search Routes is clicked in one run
MaxSearches == 2

\* the largest index a click is tried with (the list has indices 0..2)
MaxClickIndex == 3

----------------------------------------------------------------------------
(* Values *)

Null == <<>>
Some(x) == <<x>>
Val(o) == o[1]

At(s, i) == s[i + 1]

\* [0, 1, 2].map(...): one routing request per alternative index   line 135
AltIndices == {0, 1, 2}

\* const [userCoords] = useState([20.5937, 78.9629]), in whole degrees
userCoords == <<20, 78>>

\* texts the user types into the pickup input.  The destination input
\* (line 56) only supplies the text of the geocoding query, whose answer
\* is any of NominatimAnswers, so its text is not kept.
TypedAddresses == {"", "Connaught Place"}

\* NominatimSearchResponse: lat and lon come as strings    lines 20-23
\* (decimal text, kept as the sequence of its characters)
NominatimMatches ==
    { [lat |-> <<"2", "8">>, lon |-> <<"7", "7">>],
      [lat |-> <<"-", "3", "3">>, lon |-> <<"1", "5", "1">>] }

\* what the geocoding service may answer: no candidate, or a list whose
\* first candidate is one of NominatimMatches
NominatimAnswers == {<<>>} \cup {<<m>> : m \in NominatimMatches}

DigitVal(c) ==
    CASE c = "0" -> 0 [] c = "1" -> 1 [] c = "2" -> 2 [] c = "3" -> 3
      [] c = "4" -> 4 [] c = "5" -> 5 [] c = "6" -> 6 [] c = "7" -> 7
      [] c = "8" -> 8 [] c = "9" -> 9

RECURSIVE ParseDigits(_, _)
ParseDigits(s, acc) ==
    IF s = <<>> THEN acc
    ELSE ParseDigits(Tail(s), acc * 10 + DigitVal(Head(s)))

\* parseFloat on the whole-degree texts above: an optional sign, then digits
parseFloat(s) ==
    IF s # <<>> /\ Head(s) = "-" THEN 0 - ParseDigits(Tail(s), 0)
    ELSE ParseDigits(s, 0)

\* getCoordinates, lines 112-124: the first candidate's [lat, lon], or Null
\* when the answer holds no candidate (throw new Error('Invalid address'))
getCoordinates(data) ==
    IF data = <<>> THEN Null
    ELSE Some(<<parseFloat(data[1].lat), parseFloat(data[1].lon)>>)

\* OSRM geometry for the request with alternatives=k towards end: a
\* GeoJSON line of [lng, lat] pairs.  The three answers of one search
\* differ in content and in point count (2..4 points towards a northern
\* destination, 5..7 towards a southern one).
OsrmPoints(k, end) == k + 2 + (IF end[1] < 0 THEN 3 ELSE 0)

RECURSIVE OsrmLine(_, _)
OsrmLine(k, n) ==
    IF n = 0 THEN <<>>
    ELSE Append(OsrmLine(k, n - 1), <<70 + n, 20 + k>>)

\* OSRMRouteResponse, lines 25-31: data.routes is empty or holds the route
OsrmAnswers(k, end) ==
    { [routes |-> <<>>],
      [routes |-> << [geometry |->
                        [coordinates |-> OsrmLine(k, OsrmPoints(k, end))]] >>] }

\* the coordinates a geocoding answer can resolve to
GeocodedCoords == {Val(getCoordinates(a)) : a \in NominatimAnswers \ {<<>>}}

\* the answers to alternatives=k, whatever the destination
OsrmAnswersTo(k) == UNION {OsrmAnswers(k, e) : e \in GeocodedCoords}

\* coordinates.map(([lng, lat]) => [lat, lng])                   line 139
SwapAll(line) == [j \in 1..Len(line) |-> <<line[j][2], line[j][1]>>]

\* the value one routePromise resolves with, lines 139-140; Null when
\* res.data.routes[0] is undefined (the TypeError rejects the promise)
RouteOf(data, end) ==
    IF data.routes = <<>> THEN Null
    ELSE Some([coords |-> SwapAll(data.routes[1].geometry.coordinates),
               endCoords |-> end])

----------------------------------------------------------------------------
(* Promise.all over routePromises, lines 135-143 *)

Pending == [k \in AltIndices |-> Null]

\* mutant: the values are stored in the order the answers arrive
ResolveAtNextFree(results, k, r) ==
    LET free == {j \in AltIndices : results[j] = Null}
        first == CHOOSE j \in free : \A i \in free : j <= i
    IN  [results EXCEPT ![first] = r]

\* a routePromise settles into the slot of its own index, whenever it arrives
ResolveAt(results, k, r) == [results EXCEPT ![k] = r]

\* mutant: the continuation runs as soon as one promise has a value
PromiseFirstSettled(results) == \E k \in AltIndices : results[k] # Null

\* await Promise.all(routePromises) continues once every promise has a value
PromiseAllSettled(results) == \A k \in AltIndices : results[k] # Null

\* the array Promise.all yields: the values present, in index order
RECURSIVE Collect(_, _)
Collect(results, k) ==
    IF k \notin AltIndices THEN <<>>
    ELSE results[k] \o Collect(results, k + 1)

FetchedRoutes(results) == Collect(results, 0)

----------------------------------------------------------------------------
(* The estimate, lines 161-163, in tenths *)

Scale == 10
DistancePerPoint == 1   \* coords.length * 0.1   (0.1 km = 1 tenth)
MinutesPerKm == 2       \* distance * 2
CostPerKm == 10         \* distance * 10

EstimateTime(route) == Len(route.coords) * DistancePerPoint * MinutesPerKm
EstimateCost(route) == Len(route.coords) * DistancePerPoint * CostPerKm

\* a JavaScript number | null used as a condition: null and 0 are falsy
Truthy(o) == o # Null /\ Val(o) # 0

----------------------------------------------------------------------------
(* What is rendered, lines 195-267 *)

\* the Search Routes button: always rendered, never disabled, lines 195-200
SearchEnabled == TRUE

\* the Fullscreen button: always rendered, never disabled, lines 262-267
FullscreenEnabled == TRUE

\* the block that holds the Choose button, line 202
ChooseRendered == Len(routes) > 0 /\ selectedRoute = Null

\* disabled={selectedRoute === null}, line 213
ChooseDisabled == selectedRoute = Null

\* a click on the Choose button reaches handleChooseRoute
ChooseEnabled == ChooseRendered /\ ~ChooseDisabled

\* mutant: the candidates stay clickable while a route is selected
PolylineRenderedWhileSelected(i) == i >= 0 /\ i < Len(routes)

\* mutant: a click is taken for any index, in the list or not
PolylineRenderedAnyIndex(i) == selectedRoute = Null

\* the clickable candidate polyline of index i, lines 246-260
PolylineRendered(i) == selectedRoute = Null /\ i >= 0 /\ i < Len(routes)

\* the estimate box, line 220
EstimateShown == Truthy(estimatedTime) /\ Truthy(estimatedCost)

----------------------------------------------------------------------------
(* The history variable *)

Op(name) ==
    [op |-> name, stage |-> "", idx |-> 0, ok |-> TRUE, stale |-> FALSE,
     hadSel |-> FALSE, inOrder |-> TRUE, inRange |-> TRUE, endc |-> Null]

InOrder(arrived) == \A a, b \in 1..Len(arrived) : a < b => arrived[a] < arrived[b]

Remove(s, p) == SubSeq(s, 1, p - 1) \o SubSeq(s, p + 1, Len(s))

----------------------------------------------------------------------------
(* Initial state: the useState initialisers, lines 54-61 *)

Init ==
    /\ userAddress = ""
    /\ routes = <<>>
    /\ selectedRoute = Null
    /\ estimatedTime = Null
    /\ estimatedCost = Null
    /\ fullscreen = FALSE
    /\ fetches = <<>>
    /\ started = 0
    /\ lastOp = Op("init")

----------------------------------------------------------------------------
(* User input *)

\* onChange of the pickup input, line 180
SetUserAddress(a) ==
    /\ a # userAddress
    /\ userAddress' = a
    /\ lastOp' = Op("input")
    /\ UNCHANGED <<component, fetches, started>>

\* onClick of the Fullscreen button, line 264
ToggleFullscreen ==
    /\ FullscreenEnabled
    /\ fullscreen' = ~fullscreen
    /\ lastOp' = Op("input")
    /\ UNCHANGED <<userAddress, routes, selectedRoute, estimatedTime,
                   estimatedCost, fetches, started>>

----------------------------------------------------------------------------
(* getRoutes, lines 126-150 *)

\* onClick of the Search Routes button: getRoutes runs up to its first
\* await.  With a pickup text the start is geocoded first (line 128),
\* otherwise the start is userCoords and the destination is geocoded.
SearchClick ==
    /\ SearchEnabled
    /\ started < MaxSearches
    /\ started' = started + 1
    /\ fetches' = Append(fetches,
          [pc |-> IF userAddress # "" THEN "geoStart" ELSE "geoEnd",
           start |-> IF userAddress # "" THEN Null ELSE Some(userCoords),
           end |-> Null,
           results |-> Pending,
           arrived |-> <<>>,
           overtaken |-> FALSE])
    /\ lastOp' = Op("pending")
    /\ UNCHANGED <<userAddress, component>>

\* mutant: the catch block clears the list and the selection
CatchFetchErrorClears ==
    /\ routes' = <<>>
    /\ selectedRoute' = Null
    /\ UNCHANGED <<estimatedTime, estimatedCost>>

\* catch (err) { console.error(...) }, lines 147-149: nothing is stored
CatchFetchError ==
    UNCHANGED <<routes, selectedRoute, estimatedTime, estimatedCost>>

\* the call at position p ends in the catch block; answers that arrive for
\* it later find no continuation
FailFetch(p, stage) ==
    /\ CatchFetchError
    /\ fetches' = Remove(fetches, p)
    /\ lastOp' = [Op("fetchFailed") EXCEPT !.stage = stage, !.ok = FALSE,
                     !.idx = Len(fetches[p].arrived)]
    /\ UNCHANGED <<userAddress, fullscreen, started>>

\* the answer to getCoordinates(userAddress), line 128
GeocodeStartResponse(p, data) ==
    /\ p \in 1..Len(fetches)
    /\ fetches[p].pc = "geoStart"
    /\ LET c == getCoordinates(data) IN
       IF c = Null THEN FailFetch(p, "geoStart")
       ELSE /\ fetches' = [fetches EXCEPT ![p].start = c, ![p].pc = "geoEnd"]
            /\ lastOp' = Op("pending")
            /\ UNCHANGED <<userAddress, component, started>>

\* the answer to getCoordinates(destination), line 129; then the start is
\* checked (lines 131-133) and the three requests are issued (lines 135-141).
\* The start is read for the last time when the three URLs are built
\* (line 137), so the record stops carrying it from here on.
GeocodeEndResponse(p, data) ==
    /\ p \in 1..Len(fetches)
    /\ fetches[p].pc = "geoEnd"
    /\ LET c == getCoordinates(data) IN
       IF c = Null \/ fetches[p].start = Null THEN FailFetch(p, "geoEnd")
       ELSE /\ fetches' = [fetches EXCEPT ![p].end = c, ![p].pc = "routing",
                                           ![p].start = Null]
            /\ lastOp' = Op("pending")
            /\ UNCHANGED <<userAddress, component, started>>

\* axios.get rejects inside getCoordinates (network failure), lines 120-123
GeocodeNetworkError(p) ==
    /\ p \in 1..Len(fetches)
    /\ fetches[p].pc \in {"geoStart", "geoEnd"}
    /\ FailFetch(p, fetches[p].pc)

\* mutant: the new list is stored and the selection is kept
SetFetchedKeepsSelection(f) ==
    /\ routes' = FetchedRoutes(f.results)
    /\ UNCHANGED <<selectedRoute, estimatedTime, estimatedCost>>

\* mutant: a request-generation guard drops the result of an overtaken call
SetFetchedIfCurrent(f) ==
    IF f.overtaken
    THEN UNCHANGED <<routes, selectedRoute, estimatedTime, estimatedCost>>
    ELSE /\ routes' = FetchedRoutes(f.results)
         /\ selectedRoute' = Null
         /\ UNCHANGED <<estimatedTime, estimatedCost>>

\* setRoutes(fetchedRoutes); setSelectedRoute(null), lines 145-146
SetFetched(f) ==
    /\ routes' = FetchedRoutes(f.results)
    /\ selectedRoute' = Null
    /\ UNCHANGED <<estimatedTime, estimatedCost>>

\* the calls that started before the one at position p and are still in
\* flight have now been overtaken by it
MarkOvertaken(s, p) ==
    [q \in 1..Len(s) |-> IF q < p THEN [s[q] EXCEPT !.overtaken = TRUE] ELSE s[q]]

\* the answer to the routing request of index k, lines 136-140.  When it is
\* the last of the three, Promise.all resolves and lines 143-146 run in the
\* same turn of the event loop.
RouteResponse(p, k, data) ==
    /\ p \in 1..Len(fetches)
    /\ fetches[p].pc = "routing"
    /\ \A a \in 1..Len(fetches[p].arrived) : fetches[p].arrived[a] # k
    /\ data \in OsrmAnswers(k, Val(fetches[p].end))
    /\ LET f == fetches[p]
           r == RouteOf(data, Val(f.end))
           g == [f EXCEPT !.results = ResolveAt(@, k, r),
                          !.arrived = Append(@, k)]
       IN  IF r = Null THEN FailFetch(p, "routing")
           ELSE IF PromiseAllSettled(g.results)
           THEN /\ SetFetched(g)
                /\ fetches' = MarkOvertaken(Remove(fetches, p), p)
                /\ lastOp' = [Op("fetchSuccess") EXCEPT
                                 !.stale = f.overtaken,
                                 !.hadSel = (selectedRoute # Null),
                                 !.inOrder = InOrder(g.arrived),
                                 !.endc = f.end]
                /\ UNCHANGED <<userAddress, fullscreen, started>>
           ELSE /\ fetches' = [fetches EXCEPT ![p] = g]
                /\ lastOp' = Op("pending")
                /\ UNCHANGED <<userAddress, component, started>>

\* axios.get rejects for the routing request of index k: Promise.all rejects
RouteNetworkError(p, k) ==
    /\ p \in 1..Len(fetches)
    /\ fetches[p].pc = "routing"
    /\ \A a \in 1..Len(fetches[p].arrived) : fetches[p].arrived[a] # k
    /\ FailFetch(p, "routing")

----------------------------------------------------------------------------
(* Selecting and confirming, lines 152-168 *)

\* handleRouteClick, lines 152-155
handleRouteClick(index) ==
    /\ selectedRoute' = Some(index)
    /\ UNCHANGED <<routes, estimatedTime, estimatedCost>>

\* a click at the place of candidate polyline i: the handler runs only if
\* that polyline is rendered (lines 246-257)
RouteClick(i) ==
    /\ IF PolylineRendered(i) THEN handleRouteClick(i)
       ELSE UNCHANGED <<routes, selectedRoute, estimatedTime, estimatedCost>>
    /\ lastOp' = [Op("routeClick") EXCEPT
                     !.idx = IF PolylineRendered(i) THEN i ELSE 0,
                     !.ok = PolylineRendered(i),
                     !.inRange = (i < Len(routes)),
                     !.hadSel = (selectedRoute # Null)]
    /\ UNCHANGED <<userAddress, fullscreen, fetches, started>>

\* mutant: the estimate is taken from the first route of the list
handleChooseRouteFirst ==
    IF selectedRoute = Null
    THEN UNCHANGED <<routes, selectedRoute, estimatedTime, estimatedCost>>
    ELSE /\ estimatedTime' = Some(EstimateTime(At(routes, 0)))
         /\ estimatedCost' = Some(EstimateCost(At(routes, 0)))
         /\ UNCHANGED <<routes, selectedRoute>>

\* handleChooseRoute, lines 157-168
handleChooseRoute ==
    IF selectedRoute = Null
    THEN UNCHANGED <<routes, selectedRoute, estimatedTime, estimatedCost>>
    ELSE /\ estimatedTime' = Some(EstimateTime(At(routes, Val(selectedRoute))))
         /\ estimatedCost' = Some(EstimateCost(At(routes, Val(selectedRoute))))
         /\ UNCHANGED <<routes, selectedRoute>>

\* a click at the place of the Choose button: the handler runs only if the
\* button is rendered and not disabled (lines 202-216)
ChooseClick ==
    /\ IF ChooseEnabled THEN handleChooseRoute
       ELSE UNCHANGED <<routes, selectedRoute, estimatedTime, estimatedCost>>
    /\ lastOp' = [Op("chooseClick") EXCEPT !.ok = ChooseEnabled,
                                           !.hadSel = (selectedRoute # Null)]
    /\ UNCHANGED <<userAddress, fullscreen, fetches, started>>

\* handleChooseRoute called as a function, whatever is rendered
ChooseInvoke ==
    /\ handleChooseRoute
    /\ lastOp' = [Op("chooseRoute") EXCEPT !.ok = (selectedRoute # Null),
                                           !.hadSel = (selectedRoute # Null)]
    /\ UNCHANGED <<userAddress, fullscreen, fetches, started>>

----------------------------------------------------------------------------
(* Specifications *)

Background ==
    \/ \E a \in TypedAddresses : SetUserAddress(a)
    \/ ToggleFullscreen
    \/ SearchClick
    \/ \E p \in 1..MaxSearches, data \in NominatimAnswers : GeocodeStartResponse(p, data)
    \/ \E p \in 1..MaxSearches, data \in NominatimAnswers : GeocodeEndResponse(p, data)
    \/ \E p \in 1..MaxSearches : GeocodeNetworkError(p)
    \/ \E p \in 1..MaxSearches, k \in AltIndices :
          \E data \in OsrmAnswersTo(k) : RouteResponse(p, k, data)
    \/ \E p \in 1..MaxSearches, k \in AltIndices : RouteNetworkError(p, k)
    \/ \E i \in 0..MaxClickIndex : RouteClick(i)

\* the component as rendered
Next == Background \/ ChooseClick

Spec == Init /\ [][Next]_vars

\* the component with handleChooseRoute called directly
NextHandler == Background \/ ChooseInvoke

SpecHandler == Init /\ [][NextHandler]_vars

----------------------------------------------------------------------------
(* Properties *)

\* the list a search towards end must store: at position k the answer to
\* the request with alternatives=k
ExpectedRoutes(end) ==
    [j \in 1..Cardinality(AltIndices) |->
        [coords |-> SwapAll(OsrmLine(j - 1, OsrmPoints(j - 1, end))),
         endCoords |-> end]]

PartialInFlight ==
    \E p \in 1..Len(fetches) :
        Len(fetches[p].arrived) > 0 /\ ~PromiseAllSettled(fetches[p].results)

\* C1: in every reachable state the candidate route list has length 0 or
\* exactly 3; a list of 1 or 2 routes is never stored.
C1_RouteListLength == Len(routes) \in {0, Cardinality(AltIndices)}

\* C1 witness: a list of 3 is stored while another search holds only part
\* of its answers
C1_Witness == Len(routes) = Cardinality(AltIndices) /\ PartialInFlight

SelectionValid ==
    selectedRoute # Null =>
        Val(selectedRoute) >= 0 /\ Val(selectedRoute) < Len(routes)

\* C2: the selection is unset or an index into the current list, and a
\* click with an index outside the list (any click while the list is
\* empty included) does not change the selection.
C2_SelectionInBounds ==
    /\ []SelectionValid
    /\ [][(lastOp'.op = "routeClick" /\ ~lastOp'.inRange)
            => (~lastOp'.ok /\ selectedRoute' = selectedRoute)]_vars

\* C2 witness: with three routes listed and none selected, a click with an
\* index past the list has been turned down
C2_Witness ==
    /\ lastOp.op = "routeClick" /\ ~lastOp.inRange /\ ~lastOp.ok
    /\ Len(routes) = Cardinality(AltIndices)
    /\ selectedRoute = Null

\* C3: when a route fetch completes successfully the list is replaced by
\* the three routes just fetched and the selection is unset, whatever it
\* was before.
C3_FetchResetsSelection ==
    lastOp.op = "fetchSuccess" =>
        /\ routes = ExpectedRoutes(Val(lastOp.endc))
        /\ selectedRoute = Null

\* C3 witness: a fetch completed while a route was selected
C3_Witness == lastOp.op = "fetchSuccess" /\ lastOp.hadSel

\* C4: right after a route click has set the selection, the estimated time
\* and the estimated cost are both unset.
C4_ClickClearsEstimate ==
    (lastOp.op = "routeClick" /\ lastOp.ok) =>
        (estimatedTime = Null /\ estimatedCost = Null)

\* C5: in every state with a selection set, the Choose control takes the
\* confirming click.
C5_ConfirmEnabled == selectedRoute # Null => ChooseEnabled

SelectedPoints == Len(At(routes, Val(selectedRoute)).coords)

\* C6: confirming with route i selected sets duration = P / 5 and cost = P
\* for the P points of route i (in tenths: duration * 5 = P * Scale and
\* cost = P * Scale); confirming with no selection leaves the estimate as
\* it was.
C6_EstimateFormula ==
    /\ []((lastOp.op = "chooseRoute" /\ lastOp.hadSel) =>
            /\ estimatedTime # Null /\ estimatedCost # Null
            /\ Val(estimatedTime) * 5 = SelectedPoints * Scale
            /\ Val(estimatedCost) = SelectedPoints * Scale)
    /\ [][(lastOp'.op = "chooseRoute" /\ selectedRoute = Null)
            => UNCHANGED <<estimatedTime, estimatedCost>>]_vars

\* C6 witness: the estimate shown is that of the last route of the list
\* (4 points: 0.8 minutes, 4 units), not of the first
C6_Witness ==
    /\ lastOp.op = "chooseRoute" /\ lastOp.hadSel
    /\ selectedRoute = Some(2)
    /\ SelectedPoints = 4
    /\ estimatedTime = Some(8) /\ estimatedCost = Some(40)

C8_StaleFetchOverwrites ==
    /\ []((lastOp.op = "fetchSuccess" /\ lastOp.stale) =>
            /\ routes = ExpectedRoutes(Val(lastOp.endc))
            /\ selectedRoute = Null)
    /\ [][started' # started =>
            /\ Len(fetches') = Len(fetches) + 1
            /\ \A p \in 1..Len(fetches) : fetches'[p] = fetches[p]]_vars

\* C8 witness: the search started first completed last and reset a
\* selection made on the newer list
C8_Witness == lastOp.op = "fetchSuccess" /\ lastOp.stale /\ lastOp.hadSel

\* C9: whatever the order of arrival, position k of the stored list holds
\* the answer to the request of index k, and the list and the selection
\* change only in the step in which the last of the three answers arrives.
C9_RoutesInRequestOrder ==
    /\ [](lastOp.op = "fetchSuccess" =>
            \A k \in AltIndices :
                At(routes, k).coords =
                    SwapAll(OsrmLine(k, OsrmPoints(k, Val(lastOp.endc)))))
    /\ [][(lastOp'.op = "pending") => UNCHANGED <<routes, selectedRoute>>]_vars

\* C9 witness: a fetch completed whose answers arrived out of index order
C9_Witness == lastOp.op = "fetchSuccess" /\ ~lastOp.inOrder

\* C10: a candidate is clickable only while nothing is selected; a set
\* selection changes only by a successful fetch, which unsets it.
C10_SelectionSticky ==
    /\ [](\A i \in 0..MaxClickIndex : PolylineRendered(i) => selectedRoute = Null)
    /\ [][(selectedRoute # Null /\ selectedRoute' # selectedRoute) =>
            (selectedRoute' = Null /\ lastOp'.op = "fetchSuccess")]_vars

\* C10 witness: with a route selected, a click on another candidate's index
\* has been turned down
C10_Witness ==
    /\ lastOp.op = "routeClick" /\ lastOp.inRange /\ ~lastOp.ok /\ lastOp.hadSel
    /\ selectedRoute # Null

====
